---- MODULE Spec2Model ----
(***************************************************************************)
(* The access control list engine of matter-rs (matter/src/acl.rs).        *)
(*                                                                         *)
(* Representation.                                                         *)
(*   Option<T>   a set with at most one element: None == {}, Some(x) == {x}*)
(*   u64         four 16-bit words <<w3, w2, w1, w0>>, most significant    *)
(*               first, so the masks of the NOC CAT codec keep their width *)
(*   [T; N]      a sequence of length N                                    *)
(*   bitflags    the set of the flags that are set                         *)
(***************************************************************************)
EXTENDS Integers, Sequences, FiniteSets, TLC

VARIABLES
    entries,    \* AclMgrInner.entries: [Option<AclEntry>; MAX_ACL_ENTRIES]
    psm,        \* AclMgr.psm is Some (persistence enabled at construction)
    kv,         \* the durable table under ACL_KV_ENTRY: Option<entries>
    faults,     \* number of durable writes the storage may still fail
    call,       \* the most recent call of the public API and its arguments
    ret,        \* what that call returned (a Result, or allow's bool)
    m_in,       \* inputs of the authorization predicates under SpecMatch
    m_out,      \* the predicate applied last under SpecMatch, and its result
    pc,         \* where each thread stands in the call it is running
    tcall,      \* the call each thread is running, or has run last
    tret,       \* what the last call of each thread returned
    rwlock,     \* AclMgr.inner: RwLock<AclMgrInner>
    mutex,      \* the Mutex<Psm> behind AclMgr.psm: the thread that holds it
    loop        \* each thread's place in the loop over the slots it is running

vars == <<entries, psm, kv, faults, call, ret, m_in, m_out,
          pc, tcall, tret, rwlock, mutex, loop>>

\* The state of the threads and of the two locks
threadVars == <<pc, tcall, tret, rwlock, mutex, loop>>

-----------------------------------------------------------------------------
(* Constants of the program *)

SUBJECTS_PER_ENTRY == 4
TARGETS_PER_ENTRY == 3
ENTRIES_PER_FABRIC == 3
\* fabric::MAX_SUPPORTED_FABRICS is defined outside this file; the table has
\* ENTRIES_PER_FABRIC slots for each supported fabric, here for two.
MAX_SUPPORTED_FABRICS == 2
MAX_ACL_ENTRIES == ENTRIES_PER_FABRIC * MAX_SUPPORTED_FABRICS
\* transport::session::MAX_CAT_IDS_PER_NOC
MAX_CAT_IDS_PER_NOC == 3
MAX_ACCESSOR_SUBJECTS == 1 + MAX_CAT_IDS_PER_NOC

None == {}
Some(x) == {x}

\* iter().flatten() over an array of options: the occupied values, in order
RECURSIVE Occ(_)
Occ(arr) ==
    IF arr = <<>> THEN <<>>
    ELSE IF Head(arr) = None THEN Occ(Tail(arr))
    ELSE <<CHOOSE x \in Head(arr) : TRUE>> \o Occ(Tail(arr))

-----------------------------------------------------------------------------
(* 64-bit identifiers *)

W16 == 65536

RECURSIVE BitAnd(_, _, _)
BitAnd(a, b, n) ==
    IF n = 0 \/ a = 0 \/ b = 0 THEN 0
    ELSE IF a = b THEN a % (2 ^ n)
    ELSE ((a % 2) * (b % 2)) + 2 * BitAnd(a \div 2, b \div 2, n - 1)

RECURSIVE BitOr(_, _, _)
BitOr(a, b, n) ==
    IF n = 0 THEN 0
    ELSE IF a = 0 THEN b % (2 ^ n)
    ELSE IF b = 0 THEN a % (2 ^ n)
    ELSE (IF (a % 2) + (b % 2) > 0 THEN 1 ELSE 0)
         + 2 * BitOr(a \div 2, b \div 2, n - 1)

And64(a, b) == [i \in 1..4 |-> BitAnd(a[i], b[i], 16)]
Or64(a, b) == [i \in 1..4 |-> BitOr(a[i], b[i], 16)]
\* x >> 16 on a u64
Shr16(a) == <<0, a[1], a[2], a[3]>>
\* a >= b on u64
Ge64(a, b) ==
    \/ a = b
    \/ \E i \in 1..4 : a[i] > b[i] /\ \A j \in 1..(i - 1) : a[j] = b[j]
\* `x as u64` for a u32 <<hi, lo>>
U32asU64(x) == <<0, 0, x[1], x[2]>>
Zero64 == <<0, 0, 0, 0>>

NOC_CAT_SUBJECT_PREFIX == <<65535, 65533, 0, 0>>
NOC_CAT_ID_MASK == <<0, 0, 65535, 0>>
NOC_CAT_VERSION_MASK == <<0, 0, 0, 65535>>

is_noc_cat(id) == And64(id, NOC_CAT_SUBJECT_PREFIX) = NOC_CAT_SUBJECT_PREFIX

get_noc_cat_id(id) == Shr16(And64(id, NOC_CAT_ID_MASK))

get_noc_cat_version(id) == And64(id, NOC_CAT_VERSION_MASK)

\* ((id as u32) << 16) | version as u32, as the u32 <<hi, lo>>
gen_noc_cat(id, version) == <<id % W16, version % W16>>

-----------------------------------------------------------------------------
(* AccessorSubjects *)

AccessorSubjects_new(id) ==
    [i \in 1..MAX_ACCESSOR_SUBJECTS |-> IF i = 1 THEN id ELSE Zero64]

\* The first slot holding 0 takes the CAT; Err(NoSpace) leaves self as it is.
add_catid(self, subject) ==
    LET free == {i \in 1..MAX_ACCESSOR_SUBJECTS : self[i] = Zero64}
    IN  IF free = {} THEN self
        ELSE LET i == CHOOSE k \in free : \A j \in free : k <= j
             IN  [self EXCEPT ![i] = Or64(NOC_CAT_SUBJECT_PREFIX, U32asU64(subject))]

\* The loop of matches from slot i on.
RECURSIVE matches_from(_, _, _)
matches_from(self, acl_subject, i) ==
    IF i > MAX_ACCESSOR_SUBJECTS THEN FALSE
    ELSE LET v == self[i]
         IN  IF v = Zero64 THEN matches_from(self, acl_subject, i + 1)
             ELSE IF v = acl_subject THEN TRUE
             ELSE IF /\ is_noc_cat(v)
                     /\ is_noc_cat(acl_subject)
                     /\ get_noc_cat_id(v) = get_noc_cat_id(acl_subject)
                     /\ Ge64(get_noc_cat_version(v), get_noc_cat_version(acl_subject))
                  THEN TRUE
             ELSE matches_from(self, acl_subject, i + 1)

matches(self, acl_subject) == matches_from(self, acl_subject, 1)

-----------------------------------------------------------------------------
(* Privilege and Access (data_model::objects) *)

Privilege_VIEW == {"V"}
Privilege_OPERATE == {"V", "O"}
Privilege_MANAGE == {"V", "O", "M"}
Privilege_ADMIN == {"V", "O", "M", "A"}

Access_READ == {"READ"}
Access_WRITE == {"WRITE"}
Access_RV == {"READ", "NEED_V"}
Access_RWVA == {"READ", "WRITE", "NEED_V", "NEED_A"}
READ_PRIVILEGE_MASK == {"NEED_V", "NEED_O", "NEED_M", "NEED_A"}
WRITE_PRIVILEGE_MASK == {"NEED_O", "NEED_M", "NEED_A"}
\* `privilege.bits() as u16`: the NEED_* bits of Access are the bits of Privilege.
PrivilegeBits(p) ==
    {n \in READ_PRIVILEGE_MASK :
        \/ n = "NEED_V" /\ "V" \in p
        \/ n = "NEED_O" /\ "O" \in p
        \/ n = "NEED_M" /\ "M" \in p
        \/ n = "NEED_A" /\ "A" \in p}

\* Access::is_ok, the privilege-comparison policy
is_ok(access, operation, privilege) ==
    LET required == IF Access_READ \subseteq operation
                    THEN access \cap READ_PRIVILEGE_MASK
                    ELSE access \cap WRITE_PRIVILEGE_MASK
    IN  /\ (Access_READ \subseteq operation) \/ (Access_WRITE \subseteq operation)
        /\ required # {}
        /\ PrivilegeBits(privilege) \cap required # {}
        /\ operation \subseteq access

-----------------------------------------------------------------------------
(* Target and AclEntry *)

Target_new(endpoint, cluster, device_type) ==
    [cluster |-> cluster, endpoint |-> endpoint, device_type |-> device_type]

AclEntry_new(fab_idx, privilege, auth_mode) ==
    [fab_idx |-> Some(fab_idx),
     privilege |-> privilege,
     auth_mode |-> auth_mode,
     subjects |-> [i \in 1..SUBJECTS_PER_ENTRY |-> None],
     targets |-> [i \in 1..TARGETS_PER_ENTRY |-> None]]

\* position(|s| s.is_none()) over an array of options: the set is empty
\* when no slot is free, else it holds the lowest free index.
position_none(arr) ==
    LET free == {i \in 1..Len(arr) : arr[i] = None}
    IN  IF free = {} THEN None
        ELSE Some(CHOOSE k \in free : \A j \in free : k <= j)

\* Err(NoSpace) leaves the entry as it is.
add_subject(self, subject) ==
    LET index == position_none(self.subjects)
    IN  IF index = None THEN self
        ELSE LET i == CHOOSE k \in index : TRUE
             IN  [self EXCEPT !.subjects[i] = Some(subject)]

add_subject_catid(self, cat_id) ==
    add_subject(self, Or64(NOC_CAT_SUBJECT_PREFIX, U32asU64(cat_id)))

add_target(self, target) ==
    LET index == position_none(self.targets)
    IN  IF index = None THEN self
        ELSE LET i == CHOOSE k \in index : TRUE
             IN  [self EXCEPT !.targets[i] = Some(target)]

\* The loop of match_accessor over self.subjects.iter().flatten(): the
\* pair <<allow, entries_exist>> after the slots from i on.
RECURSIVE subjects_loop(_, _, _, _, _)
subjects_loop(self, accessor, i, allow, entries_exist) ==
    IF i > SUBJECTS_PER_ENTRY THEN <<allow, entries_exist>>
    ELSE IF self.subjects[i] = None
         THEN subjects_loop(self, accessor, i + 1, allow, entries_exist)
         ELSE LET s == CHOOSE x \in self.subjects[i] : TRUE
              IN  subjects_loop(self, accessor, i + 1,
                                allow \/ matches(accessor.subjects, s), TRUE)

\* match_accessor without the auth mode test of lines 311-313
match_accessor_no_auth_mode(self, accessor) ==
    LET r == subjects_loop(self, accessor, 1, FALSE, FALSE)
        allow == IF ~r[2] THEN TRUE ELSE r[1]
    IN  allow /\ self.fab_idx = Some(accessor.fab_idx)

\* match_accessor without the wildcard of lines 323-326
match_accessor_no_wildcard(self, accessor) ==
    IF self.auth_mode # accessor.auth_mode THEN FALSE
    ELSE LET r == subjects_loop(self, accessor, 1, FALSE, FALSE)
         IN  r[1] /\ self.fab_idx = Some(accessor.fab_idx)

\* match_accessor without the fabric test of line 329
match_accessor_no_fabric(self, accessor) ==
    IF self.auth_mode # accessor.auth_mode THEN FALSE
    ELSE LET r == subjects_loop(self, accessor, 1, FALSE, FALSE)
         IN  IF ~r[2] THEN TRUE ELSE r[1]

match_accessor(self, accessor) ==
    IF self.auth_mode # accessor.auth_mode THEN FALSE
    ELSE LET r == subjects_loop(self, accessor, 1, FALSE, FALSE)
             allow == IF ~r[2] THEN TRUE ELSE r[1]
         IN  allow /\ self.fab_idx = Some(accessor.fab_idx)

\* The loop of match_access_desc over self.targets.iter().flatten().
RECURSIVE targets_loop(_, _, _, _, _)
targets_loop(self, object, i, allow, entries_exist) ==
    IF i > TARGETS_PER_ENTRY THEN <<allow, entries_exist>>
    ELSE IF self.targets[i] = None
         THEN targets_loop(self, object, i + 1, allow, entries_exist)
         ELSE LET t == CHOOSE x \in self.targets[i] : TRUE
                  hit == /\ (t.endpoint = None \/ t.endpoint = object.path.endpoint)
                         /\ (t.cluster = None \/ t.cluster = object.path.cluster)
              IN  targets_loop(self, object, i + 1, allow \/ hit, TRUE)

\* Target membership that also wants the device type to be absent
target_membership_device_type(self, object) ==
    \/ \A i \in 1..TARGETS_PER_ENTRY : self.targets[i] = None
    \/ \E i \in 1..TARGETS_PER_ENTRY : \E t \in self.targets[i] :
        /\ (t.endpoint = None \/ t.endpoint = object.path.endpoint)
        /\ (t.cluster = None \/ t.cluster = object.path.cluster)
        /\ t.device_type = None

\* Target membership: the value of `allow` at line 348.
target_membership(self, object) ==
    LET r == targets_loop(self, object, 1, FALSE, FALSE)
    IN  IF ~r[2] THEN TRUE ELSE r[1]

\* match_access_desc that grants whatever the privilege of the entry
match_access_desc_run_any_privilege(self, object) ==
    [ret |-> target_membership(self, object) /\ object.target_perms # None,
     is_ok_calls |-> <<>>]

\* match_access_desc together with the calls it makes to the policy: ret is
\* what it returns, is_ok_calls the arguments of each call of access.is_ok.
match_access_desc_run(self, object) ==
    IF target_membership(self, object)
    THEN IF object.target_perms # None
         THEN LET access == CHOOSE a \in object.target_perms : TRUE
              IN  [ret |-> is_ok(access, object.operation, self.privilege),
                   is_ok_calls |-> <<<<access, object.operation, self.privilege>>>>]
         ELSE [ret |-> FALSE, is_ok_calls |-> <<>>]
    ELSE [ret |-> FALSE, is_ok_calls |-> <<>>]

match_access_desc(self, object) == match_access_desc_run(self, object).ret

AclEntry_allow(self, req) ==
    match_accessor(self, req.accessor) /\ match_access_desc(self, req.object)

-----------------------------------------------------------------------------
(* Requests *)

GenericPath_new(endpoint, cluster, leaf) ==
    [endpoint |-> endpoint, cluster |-> cluster, leaf |-> leaf]

Accessor_new(fab_idx, subjects, auth_mode) ==
    [fab_idx |-> fab_idx, subjects |-> subjects, auth_mode |-> auth_mode]

AccessReq_new(accessor, path, operation) ==
    [accessor |-> accessor,
     object |-> [path |-> path, target_perms |-> None, operation |-> operation]]

set_target_perms(self, perms) ==
    [self EXCEPT !.object.target_perms = Some(perms)]

-----------------------------------------------------------------------------
(* The authorization predicates on their own: SpecMatch *)

\* Bounds of the inputs
MaxSubjects == 2
MaxTargets == 2
MaxCats == 1

\* Sequences over S of length at most n
SeqUpTo(S, n) == UNION {[1..k -> S] : k \in 0..n}

\* Node ids 112233 and 112232 of the tests, and 0xFFFF_FFFF_ABCD_0003
Node1 == <<0, 0, 1, 46697>>
Node2 == <<0, 0, 1, 46696>>
NodeF == <<65535, 65535, 43981, 3>>
\* The CAT ids 0xABCD and 0xCAFE of the tests
CatA == 43981
CatB == 51966
CatPool == {gen_noc_cat(CatA, 2), gen_noc_cat(CatA, 3), gen_noc_cat(CatB, 2)}
CatSubject(c) == Or64(NOC_CAT_SUBJECT_PREFIX, U32asU64(c))
SubjectPool == {Node1, Node2} \cup {CatSubject(c) : c \in CatPool}

RECURSIVE add_subjects(_, _)
add_subjects(e, ss) ==
    IF ss = <<>> THEN e ELSE add_subjects(add_subject(e, Head(ss)), Tail(ss))

RECURSIVE add_targets(_, _)
add_targets(e, ts) ==
    IF ts = <<>> THEN e ELSE add_targets(add_target(e, Head(ts)), Tail(ts))

RECURSIVE add_catids(_, _)
add_catids(a, cs) ==
    IF cs = <<>> THEN a ELSE add_catids(add_catid(a, Head(cs)), Tail(cs))

\* Entries as the public API builds them
BuildEntry(fab, priv, mode, ss, ts) ==
    add_targets(add_subjects(AclEntry_new(fab, priv, mode), ss), ts)

BuildReq(fab, subjects, mode, path, operation, perms) ==
    LET r == AccessReq_new(Accessor_new(fab, subjects, mode), path, operation)
    IN  IF perms = None THEN r
        ELSE set_target_perms(r, CHOOSE a \in perms : TRUE)

TargetPool ==
    {Target_new(ep, cl, None) : ep \in {None, Some(1), Some(2)}, cl \in {None, Some(1234)}}
    \cup {Target_new(Some(1), Some(1234), Some(22)), Target_new(Some(2), None, Some(22))}
PathPool ==
    {GenericPath_new(ep, cl, None) : ep \in {None, Some(1)}, cl \in {Some(1234), Some(2)}}
AccessorSubjectsPool ==
    {add_catids(AccessorSubjects_new(id), cs) :
        id \in {Node1, NodeF}, cs \in SeqUpTo(CatPool, MaxCats)}

\* Inputs that vary the accessor side of a request against an entry
InputsAccessor ==
    {[entry |-> BuildEntry(ef, Privilege_VIEW, em, ss, ts),
      req |-> BuildReq(af, subj, am, GenericPath_new(Some(1), Some(1234), None),
                       Access_READ, Some(Access_RWVA))] :
        ef \in {1, 2}, em \in {"Case", "Pase"}, ss \in SeqUpTo(SubjectPool, MaxSubjects),
        ts \in {<<>>, <<Target_new(Some(2), None, None)>>},
        af \in {2}, subj \in AccessorSubjectsPool, am \in {"Case", "Group"}}

\* Inputs that vary the target side
InputsObject ==
    {[entry |-> BuildEntry(2, priv, "Case", ss, ts),
      req |-> BuildReq(2, AccessorSubjects_new(Node1), "Case", path, operation, perms)] :
        priv \in {Privilege_VIEW, Privilege_ADMIN},
        ss \in {<<>>}, ts \in SeqUpTo(TargetPool, MaxTargets),
        path \in PathPool, operation \in {Access_READ, Access_WRITE},
        perms \in {None, Some(Access_RWVA)}}

NoOut == [fn |-> "none", ret |-> FALSE, subject |-> None, is_ok_calls |-> <<>>]

\* The threads that call into one AclMgr
MaxThreads == 2
Threads == 1..MaxThreads

\* std::sync::RwLock: the thread that holds the write guard, the number of
\* read guards each thread holds, and the threads blocked in write()
RwLock_new == [writer |-> None, readers |-> [t \in Threads |-> 0], waiting |-> {}]

\* A thread outside the loops over the slots: i slots are behind it, and
\* `seen` is what it has read in them
LoopIdle == [i |-> 0, seen |-> <<>>]

\* No thread is in a call, and both locks are free.
ThreadsIdle ==
    /\ pc = [t \in Threads |-> "idle"]
    /\ tcall = [t \in Threads |->
                  [op |-> "none", index |-> 0, fab_idx |-> 0, entry |-> None, req |-> None]]
    /\ tret = [t \in Threads |-> "none"]
    /\ rwlock = RwLock_new
    /\ mutex = None
    /\ loop = [t \in Threads |-> LoopIdle]

\* The store of the engine does not take part in SpecMatch.
StoreIdle ==
    /\ entries = [i \in 1..MAX_ACL_ENTRIES |-> None]
    /\ psm = FALSE
    /\ kv = None
    /\ faults = 0
    /\ call = [op |-> "none", index |-> 0, fab_idx |-> 0, entry |-> None, req |-> None]
    /\ ret = "none"

InitMatch ==
    /\ StoreIdle
    /\ ThreadsIdle
    /\ m_in \in InputsAccessor \cup InputsObject
    /\ m_out = NoOut

storeVars == <<entries, psm, kv, faults, call, ret>>

\* accessor.subjects.matches(s) for an occupied subject s of the entry
Matches ==
    \E i \in 1..SUBJECTS_PER_ENTRY :
        /\ m_in.entry.subjects[i] # None
        /\ LET s == CHOOSE x \in m_in.entry.subjects[i] : TRUE
           IN  m_out' = [NoOut EXCEPT !.fn = "matches", !.subject = Some(s),
                                      !.ret = matches(m_in.req.accessor.subjects, s)]
        /\ UNCHANGED <<m_in, storeVars, threadVars>>

MatchAccessor ==
    /\ m_out' = [NoOut EXCEPT !.fn = "match_accessor",
                              !.ret = match_accessor(m_in.entry, m_in.req.accessor)]
    /\ UNCHANGED <<m_in, storeVars, threadVars>>

MatchAccessDesc ==
    /\ LET r == match_access_desc_run(m_in.entry, m_in.req.object)
       IN  m_out' = [NoOut EXCEPT !.fn = "match_access_desc",
                                  !.ret = r.ret,
                                  !.is_ok_calls = r.is_ok_calls]
    /\ UNCHANGED <<m_in, storeVars, threadVars>>

EntryAllow ==
    /\ m_out' = [NoOut EXCEPT !.fn = "allow",
                              !.ret = AclEntry_allow(m_in.entry, m_in.req)]
    /\ UNCHANGED <<m_in, storeVars, threadVars>>

NextMatch == Matches \/ MatchAccessor \/ MatchAccessDesc \/ EntryAllow

SpecMatch == InitMatch /\ [][NextMatch]_vars

-----------------------------------------------------------------------------
(* AclMgrInner and AclMgr: the store and its public API *)

\* The TLV form of one entry: an optional field that is absent is left out,
\* and AuthMode::Invalid writes nothing (lines 67-70).
AuthMode_as_u8(a) ==
    CASE a = "Pase" -> 1 [] a = "Case" -> 2 [] a = "Group" -> 3 [] OTHER -> 4

AuthMode_to_tlv(a) == IF a = "Invalid" THEN None ELSE Some(AuthMode_as_u8(a))

\* AuthMode::from_tlv of the value u: FromPrimitive::from_u32, without
\* Invalid; None stands for Err(Error::Invalid).
AuthMode_from_tlv(u) ==
    CASE u = 1 -> Some("Pase") [] u = 2 -> Some("Case") [] u = 3 -> Some("Group")
      [] OTHER -> None

AclEntry_to_tlv(e) ==
    [privilege |-> e.privilege,
     auth_mode |-> AuthMode_to_tlv(e.auth_mode),
     subjects |-> Occ(e.subjects),
     targets |-> Occ(e.targets),
     fab_idx |-> e.fab_idx]

\* AclMgrInner::store writes self.entries.to_tlv: the array of the occupied
\* slots, in slot order (a None slot writes nothing).
to_tlv(es) == [i \in 1..Len(Occ(es)) |-> AclEntry_to_tlv(Occ(es)[i])]

\* An array of N options read back from the elements that were written: they
\* fill the first slots, the other slots are None.
array_from_tlv(elems, N) ==
    [i \in 1..N |-> IF i <= Len(elems) THEN Some(elems[i]) ELSE None]

\* The entry read back from its TLV form; None stands for the error of a
\* field that is required and absent, or that does not decode.
AclEntry_from_tlv(t) ==
    LET auth_mode == UNION {AuthMode_from_tlv(u) : u \in t.auth_mode}
    IN  IF auth_mode = None THEN None
        ELSE Some([privilege |-> t.privilege,
                   auth_mode |-> CHOOSE a \in auth_mode : TRUE,
                   subjects |-> array_from_tlv(t.subjects, SUBJECTS_PER_ENTRY),
                   targets |-> array_from_tlv(t.targets, TARGETS_PER_ENTRY),
                   fab_idx |-> t.fab_idx])

\* AclMgrInner::load: the table read back from durable storage; None stands
\* for an error (no table under the key, or an entry that does not decode).
load(stored) ==
    IF stored = None THEN None
    ELSE LET tlv == CHOOSE x \in stored : TRUE
         IN  IF \E i \in 1..Len(tlv) : AclEntry_from_tlv(tlv[i]) = None
             THEN None
             ELSE Some(array_from_tlv(
                          [i \in 1..Len(tlv) |->
                              CHOOSE e \in AclEntry_from_tlv(tlv[i]) : TRUE],
                          MAX_ACL_ENTRIES))

\* The number of entries of the table that carry the fabric index of `entry`
\* (lines 477-482); fab is an Option<u8>.
fabric_count(es, fab) ==
    Cardinality({i \in 1..MAX_ACL_ENTRIES : \E a \in es[i] : a.fab_idx = fab})

\* for_index_in_fabric: the slot of the index-th entry whose fabric index is
\* fab_idx, scanning from slot i with curr_index entries of the fabric
\* passed; None stands for Err(NotFound).
RECURSIVE for_index_scan(_, _, _, _, _)
for_index_scan(es, index, fab_idx, i, curr_index) ==
    IF i > MAX_ACL_ENTRIES THEN None
    ELSE IF \E e1 \in es[i] : e1.fab_idx = Some(fab_idx)
         THEN IF curr_index = index THEN Some(i)
              ELSE for_index_scan(es, index, fab_idx, i + 1, curr_index + 1)
         ELSE for_index_scan(es, index, fab_idx, i + 1, curr_index)

\* The index taken as a slot number of the table, not as a count among the
\* entries of the fabric
for_index_in_fabric_absolute(es, index, fab_idx) ==
    IF index + 1 <= MAX_ACL_ENTRIES /\ \E e1 \in es[index + 1] : e1.fab_idx = Some(fab_idx)
    THEN Some(index + 1)
    ELSE None

\* An index past the last entry of the fabric falls back on its first entry
for_index_in_fabric_clamped(es, index, fab_idx) ==
    LET r == for_index_scan(es, index, fab_idx, 1, 0)
    IN  IF r = None THEN for_index_scan(es, 0, fab_idx, 1, 0) ELSE r

for_index_in_fabric(es, index, fab_idx) == for_index_scan(es, index, fab_idx, 1, 0)

\* The loop of allow that grants when it runs off the table
RECURSIVE allow_scan_default_grant(_, _, _)
allow_scan_default_grant(es, req, i) ==
    IF i > MAX_ACL_ENTRIES THEN TRUE
    ELSE IF \E e \in es[i] : AclEntry_allow(e, req) THEN TRUE
    ELSE allow_scan_default_grant(es, req, i + 1)

\* The loop of allow left after the first occupied slot, whatever it decides
RECURSIVE allow_scan_first_entry(_, _, _)
allow_scan_first_entry(es, req, i) ==
    IF i > MAX_ACL_ENTRIES THEN FALSE
    ELSE IF es[i] # None THEN \E e \in es[i] : AclEntry_allow(e, req)
    ELSE allow_scan_first_entry(es, req, i + 1)

\* The loop of AclMgr::allow over inner.entries.iter().flatten() from slot i
RECURSIVE allow_scan(_, _, _)
allow_scan(es, req, i) ==
    IF i > MAX_ACL_ENTRIES THEN FALSE
    ELSE IF \E e \in es[i] : AclEntry_allow(e, req) THEN TRUE
    ELSE allow_scan(es, req, i + 1)

\* AclMgr::allow without the implicit grant of lines 560-563
AclMgr_allow_no_pase(es, req) == allow_scan(es, req, 1)

AclMgr_allow(es, req) ==
    IF req.accessor.auth_mode = "Pase" THEN TRUE
    ELSE allow_scan(es, req, 1)

Bool(b) == IF b THEN "true" ELSE "false"

NoCall == [op |-> "none", index |-> 0, fab_idx |-> 0, entry |-> None, req |-> None]

\* The tail of the mutators with the result of a failed store dropped
Persist_dropped(es) ==
    IF ~psm
    THEN ret' = "Ok" /\ UNCHANGED <<kv, faults>>
    ELSE \/ ret' = "Ok" /\ kv' = Some(to_tlv(es)) /\ UNCHANGED faults
         \/ /\ faults > 0
            /\ ret' = "Ok" /\ faults' = faults - 1 /\ UNCHANGED kv

\* The tail of the mutators (lines 493-498): with persistence enabled the
\* table `es` is stored, and the result of the store is the result of the
\* call; the durable write may fail.
Persist(es) ==
    IF ~psm
    THEN ret' = "Ok" /\ UNCHANGED <<kv, faults>>
    ELSE \/ ret' = "Ok" /\ kv' = Some(to_tlv(es)) /\ UNCHANGED faults
         \/ /\ faults > 0
            /\ ret' = "PsmError" /\ faults' = faults - 1 /\ UNCHANGED kv

\* add without the per-fabric limit of lines 483-485
add_no_fabric_limit(entry) ==
    /\ call' = [NoCall EXCEPT !.op = "add", !.entry = Some(entry)]
    /\ LET index == position_none(entries)
       IN  IF index = None
           THEN ret' = "NoSpace" /\ UNCHANGED <<entries, kv, faults>>
           ELSE LET i == CHOOSE k \in index : TRUE
                    es == [entries EXCEPT ![i] = Some(entry)]
                IN  entries' = es /\ Persist(es)
    /\ UNCHANGED <<psm, m_in, m_out, threadVars>>

add(entry) ==
    /\ call' = [NoCall EXCEPT !.op = "add", !.entry = Some(entry)]
    /\ LET cnt == fabric_count(entries, entry.fab_idx)
           index == position_none(entries)
       IN  IF cnt >= ENTRIES_PER_FABRIC \/ index = None
           THEN ret' = "NoSpace" /\ UNCHANGED <<entries, kv, faults>>
           ELSE LET i == CHOOSE k \in index : TRUE
                    es == [entries EXCEPT ![i] = Some(entry)]
                IN  entries' = es /\ Persist(es)
    /\ UNCHANGED <<psm, m_in, m_out, threadVars>>

edit(index, fab_idx, new) ==
    /\ call' = [NoCall EXCEPT !.op = "edit", !.index = index, !.fab_idx = fab_idx,
                              !.entry = Some(new)]
    /\ LET old == for_index_in_fabric(entries, index, fab_idx)
       IN  IF old = None
           THEN ret' = "NotFound" /\ UNCHANGED <<entries, kv, faults>>
           ELSE LET i == CHOOSE k \in old : TRUE
                    es == [entries EXCEPT ![i] = Some(new)]
                IN  entries' = es /\ Persist(es)
    /\ UNCHANGED <<psm, m_in, m_out, threadVars>>

delete(index, fab_idx) ==
    /\ call' = [NoCall EXCEPT !.op = "delete", !.index = index, !.fab_idx = fab_idx]
    /\ LET old == for_index_in_fabric(entries, index, fab_idx)
       IN  IF old = None
           THEN ret' = "NotFound" /\ UNCHANGED <<entries, kv, faults>>
           ELSE LET i == CHOOSE k \in old : TRUE
                    es == [entries EXCEPT ![i] = None]
                IN  entries' = es /\ Persist(es)
    /\ UNCHANGED <<psm, m_in, m_out, threadVars>>

\* delete_for_fabric without the test of lines 532-535
delete_for_fabric_every_slot(fab_idx) ==
    /\ call' = [NoCall EXCEPT !.op = "delete_for_fabric", !.fab_idx = fab_idx]
    /\ LET es == [i \in 1..MAX_ACL_ENTRIES |-> None]
       IN  entries' = es /\ Persist(es)
    /\ UNCHANGED <<psm, m_in, m_out, threadVars>>

delete_for_fabric(fab_idx) ==
    /\ call' = [NoCall EXCEPT !.op = "delete_for_fabric", !.fab_idx = fab_idx]
    /\ LET es == [i \in 1..MAX_ACL_ENTRIES |->
                    IF \E e \in entries[i] : e.fab_idx = Some(fab_idx)
                    THEN None ELSE entries[i]]
       IN  entries' = es /\ Persist(es)
    /\ UNCHANGED <<psm, m_in, m_out, threadVars>>

\* erase_all returns (): the result of the store is logged and dropped.
erase_all ==
    /\ call' = [NoCall EXCEPT !.op = "erase_all"]
    /\ LET es == [i \in 1..MAX_ACL_ENTRIES |-> None]
       IN  /\ entries' = es
           /\ ret' = "Ok"
           /\ IF ~psm THEN UNCHANGED <<kv, faults>>
              ELSE \/ kv' = Some(to_tlv(es)) /\ UNCHANGED faults
                   \/ faults > 0 /\ faults' = faults - 1 /\ UNCHANGED kv
    /\ UNCHANGED <<psm, m_in, m_out, threadVars>>

allow(req) ==
    /\ call' = [NoCall EXCEPT !.op = "allow", !.req = Some(req)]
    /\ ret' = Bool(AclMgr_allow(entries, req))
    /\ UNCHANGED <<entries, psm, kv, faults, m_in, m_out, threadVars>>

\* AclMgr::new_with(true) on the storage the AclMgr before it has written:
\* the table is loaded, and is empty when the load fails.
new_with ==
    /\ call' = [NoCall EXCEPT !.op = "new_with"]
    /\ ret' = "Ok"
    /\ entries' = IF load(kv) = None
                  THEN [i \in 1..MAX_ACL_ENTRIES |-> None]
                  ELSE CHOOSE es \in load(kv) : TRUE
    /\ UNCHANGED <<psm, kv, faults, m_in, m_out, threadVars>>

\* Arguments of the calls
MaxFabIdx == 2
FabIdxs == 0..MaxFabIdx
\* Fabric-relative indexes: every index a fabric at its limit holds, and the
\* first one beyond
Indexes == 0..ENTRIES_PER_FABRIC
EntryPool == {AclEntry_new(f, Privilege_VIEW, "Case") : f \in {1, 2}}
ReqPool ==
    {BuildReq(f, AccessorSubjects_new(Node1), mode,
              GenericPath_new(Some(1), Some(1234), None), operation, perms) :
        f \in FabIdxs, mode \in {"Case", "Pase"},
        operation \in {Access_READ},
        perms \in {None, Some(Access_RWVA)}}

\* AclMgr::new_with: an empty table; nothing is in durable storage yet.
Init ==
    /\ entries = [i \in 1..MAX_ACL_ENTRIES |-> None]
    /\ psm = TRUE
    /\ kv = None
    /\ faults = 0
    /\ call = NoCall
    /\ ret = "none"
    /\ m_in = [entry |-> AclEntry_new(0, Privilege_VIEW, "Case"),
               req |-> AccessReq_new(Accessor_new(0, AccessorSubjects_new(Node1), "Case"),
                                     GenericPath_new(None, None, None), Access_READ)]
    /\ m_out = NoOut
    /\ ThreadsIdle

Add == \E e \in EntryPool : add(e)
Edit == \E i \in Indexes, f \in FabIdxs, e \in EntryPool : edit(i, f, e)
Delete == \E i \in Indexes, f \in FabIdxs : delete(i, f)
DeleteForFabric == \E f \in FabIdxs : delete_for_fabric(f)
EraseAll == erase_all
Allow == \E r \in ReqPool : allow(r)

Next == Add \/ Edit \/ Delete \/ DeleteForFabric \/ EraseAll \/ Allow

Spec == Init /\ [][Next]_vars

-----------------------------------------------------------------------------
(* The store with durable writes that may fail: SpecFault *)

\* The number of durable writes that fail
MaxFaults == 1

\* Entries of one fabric that differ in their privilege
FaultEntryPool == {AclEntry_new(1, p, "Case") : p \in {Privilege_VIEW, Privilege_ADMIN}}
FaultReqPool ==
    {BuildReq(1, AccessorSubjects_new(Node1), "Case",
              GenericPath_new(Some(1), Some(1234), None), operation, Some(Access_RWVA)) :
        operation \in {Access_READ, Access_WRITE}}

\* AclMgr::new_with on a storage that will fail MaxFaults writes
InitFault ==
    /\ entries = [i \in 1..MAX_ACL_ENTRIES |-> None]
    /\ psm = TRUE
    /\ kv = None
    /\ faults = MaxFaults
    /\ call = NoCall
    /\ ret = "none"
    /\ m_in = [entry |-> AclEntry_new(0, Privilege_VIEW, "Case"),
               req |-> AccessReq_new(Accessor_new(0, AccessorSubjects_new(Node1), "Case"),
                                     GenericPath_new(None, None, None), Access_READ)]
    /\ m_out = NoOut
    /\ ThreadsIdle

FaultAdd == \E e \in FaultEntryPool : add(e)
FaultEdit == \E i \in Indexes, e \in FaultEntryPool : edit(i, 1, e)
FaultDelete == \E i \in Indexes : delete(i, 1)
FaultDeleteForFabric == delete_for_fabric(1)
FaultEraseAll == erase_all
FaultAllow == \E r \in FaultReqPool : allow(r)

NextFault ==
    \/ FaultAdd \/ FaultEdit \/ FaultDelete
    \/ FaultDeleteForFabric \/ FaultEraseAll \/ FaultAllow

SpecFault == InitFault /\ [][NextFault]_vars

-----------------------------------------------------------------------------
(* The store over restarts, with entries of every kind: SpecRestart *)

\* AclEntry::new takes any fabric index and any AuthMode: an entry of fabric
\* 0, an entry with a subject and a target, and an entry of AuthMode::Invalid
RestartEntryPool ==
    {AclEntry_new(0, Privilege_VIEW, "Case"),
     add_target(add_subject(AclEntry_new(1, Privilege_ADMIN, "Group"), Node1),
                Target_new(Some(1), Some(1234), None)),
     AclEntry_new(1, Privilege_VIEW, "Invalid")}
RestartReqPool ==
    {BuildReq(f, AccessorSubjects_new(Node1), "Case",
              GenericPath_new(Some(1), Some(1234), None), Access_READ, Some(Access_RWVA)) :
        f \in {0, 1}}

RestartAdd == \E e \in RestartEntryPool : add(e)
RestartEdit == \E i \in {0, 1}, f \in {0, 1}, e \in RestartEntryPool : edit(i, f, e)
RestartDelete == \E i \in {0, 1}, f \in {0, 1} : delete(i, f)
RestartEraseAll == erase_all
RestartAllow == \E r \in RestartReqPool : allow(r)
Restart == new_with

NextRestart ==
    \/ RestartAdd \/ RestartEdit \/ RestartDelete
    \/ RestartEraseAll \/ RestartAllow \/ Restart

SpecRestart == Init /\ [][NextRestart]_vars

-----------------------------------------------------------------------------
(* Threads that call into one AclMgr, and its two locks: SpecThreads *)

\* The part of each mutator that runs on the table under the write guard:
\* its early return, or the table it leaves (lines 464-466, 477-491,
\* 504-505, 517-518, 531-538)
inner_add(es, entry) ==
    LET cnt == fabric_count(es, entry.fab_idx)
        index == position_none(es)
    IN  IF cnt >= ENTRIES_PER_FABRIC \/ index = None
        THEN [ret |-> "NoSpace", entries |-> es]
        ELSE [ret |-> "Ok",
              entries |-> [es EXCEPT ![CHOOSE k \in index : TRUE] = Some(entry)]]

inner_edit(es, index, fab_idx, new) ==
    LET old == for_index_in_fabric(es, index, fab_idx)
    IN  IF old = None
        THEN [ret |-> "NotFound", entries |-> es]
        ELSE [ret |-> "Ok",
              entries |-> [es EXCEPT ![CHOOSE k \in old : TRUE] = Some(new)]]

inner_delete(es, index, fab_idx) ==
    LET old == for_index_in_fabric(es, index, fab_idx)
    IN  IF old = None
        THEN [ret |-> "NotFound", entries |-> es]
        ELSE [ret |-> "Ok",
              entries |-> [es EXCEPT ![CHOOSE k \in old : TRUE] = None]]

inner_delete_for_fabric(es, fab_idx) ==
    [ret |-> "Ok",
     entries |-> [i \in 1..MAX_ACL_ENTRIES |->
                    IF \E e \in es[i] : e.fab_idx = Some(fab_idx)
                    THEN None ELSE es[i]]]

inner_erase_all(es) ==
    [ret |-> "Ok", entries |-> [i \in 1..MAX_ACL_ENTRIES |-> None]]

\* The mutator named by call record c, applied to table es
inner_mutate(es, c) ==
    CASE c.op = "add" -> inner_add(es, CHOOSE e \in c.entry : TRUE)
      [] c.op = "edit" -> inner_edit(es, c.index, c.fab_idx, CHOOSE e \in c.entry : TRUE)
      [] c.op = "delete" -> inner_delete(es, c.index, c.fab_idx)
      [] c.op = "delete_for_fabric" -> inner_delete_for_fabric(es, c.fab_idx)
      [] OTHER -> inner_erase_all(es)

Mutators == {"add", "edit", "delete", "delete_for_fabric", "erase_all"}

\* The calls the threads make
ThreadEntryPool == {AclEntry_new(1, Privilege_VIEW, "Case")}
ThreadReqPool ==
    {BuildReq(1, AccessorSubjects_new(Node1), mode,
              GenericPath_new(Some(1), Some(1234), None), Access_READ, Some(Access_RWVA)) :
        mode \in {"Case", "Pase"}}
ThreadCalls ==
    {[NoCall EXCEPT !.op = "add", !.entry = Some(e)] : e \in ThreadEntryPool}
    \cup {[NoCall EXCEPT !.op = "edit", !.index = i, !.fab_idx = 1, !.entry = Some(e)] :
            i \in {0, 1}, e \in ThreadEntryPool}
    \cup {[NoCall EXCEPT !.op = "delete", !.index = i, !.fab_idx = 1] : i \in {0, 1}}
    \cup {[NoCall EXCEPT !.op = o] :
            o \in {"delete_for_fabric", "erase_all", "for_each_acl", "new_with"}}
    \cup {[NoCall EXCEPT !.op = "allow", !.req = Some(r)] : r \in ThreadReqPool}

InitThreads ==
    /\ entries = [i \in 1..MAX_ACL_ENTRIES |-> None]
    /\ psm = TRUE
    /\ kv = None
    /\ faults = 0
    /\ call = NoCall
    /\ ret = "none"
    /\ m_in = [entry |-> AclEntry_new(0, Privilege_VIEW, "Case"),
               req |-> AccessReq_new(Accessor_new(0, AccessorSubjects_new(Node1), "Case"),
                                     GenericPath_new(None, None, None), Access_READ)]
    /\ m_out = NoOut
    /\ ThreadsIdle

seqVars == <<call, ret, m_in, m_out, psm>>

\* Thread t returns r from its call
Return(t, r) ==
    /\ pc' = [pc EXCEPT ![t] = "idle"]
    /\ tret' = [tret EXCEPT ![t] = r]

\* The locks with the guards of thread t dropped
DropWrite(l) == [l EXCEPT !.writer = None]
DropReads(l, t) == [l EXCEPT !.readers[t] = 0]

\* Thread t enters a call. The mutators start in inner.write() (lines 463,
\* 476, 503, 516, 529), for_each_acl and allow in inner.read() (lines 552,
\* 564), allow only when the accessor is not PASE (lines 561-563); new_with
\* starts in psm_handle.lock() (line 444).
Call(t) ==
    /\ pc[t] = "idle"
    /\ \E c \in ThreadCalls :
        /\ tcall' = [tcall EXCEPT ![t] = c]
        /\ IF c.op \in Mutators
           THEN /\ pc' = [pc EXCEPT ![t] = "write"]
                /\ tret' = [tret EXCEPT ![t] = "none"]
                /\ rwlock' = [rwlock EXCEPT !.waiting = @ \cup {t}]
           ELSE IF c.op = "new_with"
           THEN /\ pc' = [pc EXCEPT ![t] = "load_lock"]
                /\ tret' = [tret EXCEPT ![t] = "none"]
                /\ UNCHANGED rwlock
           ELSE IF c.op = "allow" /\ \E r \in c.req : r.accessor.auth_mode = "Pase"
           THEN Return(t, "true") /\ UNCHANGED rwlock
           ELSE /\ pc' = [pc EXCEPT ![t] = "read"]
                /\ tret' = [tret EXCEPT ![t] = "none"]
                /\ UNCHANGED rwlock
    /\ UNCHANGED <<entries, kv, faults, mutex, seqVars, loop>>

\* inner.write() returns the guard: no thread holds a guard of the lock.
WriteLock(t) ==
    /\ pc[t] = "write"
    /\ rwlock.writer = None
    /\ \A u \in Threads : rwlock.readers[u] = 0
    /\ rwlock' = [rwlock EXCEPT !.writer = Some(t), !.waiting = @ \ {t}]
    /\ pc' = [pc EXCEPT ![t] = "body"]
    /\ UNCHANGED <<entries, kv, faults, mutex, tcall, tret, seqVars, loop>>

\* The mutator changes the table under its write guard; it returns at once on
\* NoSpace and NotFound, and when persistence is off.
Body(t) ==
    /\ pc[t] = "body"
    /\ LET r == inner_mutate(entries, tcall[t])
       IN  /\ entries' = r.entries
           /\ IF r.ret = "Ok" /\ psm
              THEN /\ pc' = [pc EXCEPT ![t] = "psm_lock"]
                   /\ UNCHANGED <<rwlock, tret>>
              ELSE /\ Return(t, r.ret)
                   /\ rwlock' = DropWrite(rwlock)
    /\ UNCHANGED <<kv, faults, mutex, tcall, seqVars, loop>>

\* psm.lock() with the write guard dropped, to be taken again before the store
PsmLock_drops_write_guard(t) ==
    /\ pc[t] = "psm_lock"
    /\ mutex = None
    /\ mutex' = Some(t)
    /\ rwlock' = [rwlock EXCEPT !.writer = None, !.waiting = @ \cup {t}]
    /\ pc' = [pc EXCEPT ![t] = "write"]
    /\ UNCHANGED <<entries, kv, faults, tcall, tret, seqVars, loop>>

\* psm.lock() returns the guard (lines 468, 494, 508, 521, 541).
PsmLock(t) ==
    /\ pc[t] = "psm_lock"
    /\ mutex = None
    /\ mutex' = Some(t)
    /\ pc' = [pc EXCEPT ![t] = "store"]
    /\ UNCHANGED <<entries, kv, faults, rwlock, tcall, tret, seqVars, loop>>

\* Store without the write of line 381
Store_no_write(t) ==
    /\ pc[t] = "store"
    /\ Return(t, "Ok")
    /\ mutex' = None
    /\ rwlock' = DropWrite(rwlock)
    /\ UNCHANGED <<entries, kv, faults, tcall, seqVars, loop>>

\* inner.store(&psm), then both guards are dropped and the call returns the
\* result of the store; erase_all drops the result.
Store(t) ==
    /\ pc[t] = "store"
    /\ \/ /\ kv' = Some(to_tlv(entries))
          /\ Return(t, "Ok")
          /\ UNCHANGED faults
       \/ /\ faults > 0
          /\ faults' = faults - 1
          /\ Return(t, IF tcall[t].op = "erase_all" THEN "Ok" ELSE "PsmError")
          /\ UNCHANGED kv
    /\ mutex' = None
    /\ rwlock' = DropWrite(rwlock)
    /\ UNCHANGED <<entries, tcall, seqVars, loop>>

\* inner.read() that does not wait for the writer
ReadLock_beside_writer(t) ==
    /\ pc[t] = "read"
    /\ rwlock' = [rwlock EXCEPT !.readers[t] = @ + 1]
    /\ pc' = [pc EXCEPT ![t] = IF tcall[t].op = "allow" THEN "scan" ELSE "iterate"]
    /\ UNCHANGED <<entries, kv, faults, mutex, tcall, tret, seqVars, loop>>

\* inner.read() returns a guard: no thread holds the write guard, and no
\* thread is blocked in write().
ReadLock(t) ==
    /\ pc[t] = "read"
    /\ rwlock.writer = None
    /\ rwlock.waiting = {}
    /\ rwlock' = [rwlock EXCEPT !.readers[t] = @ + 1]
    /\ pc' = [pc EXCEPT ![t] = IF tcall[t].op = "allow" THEN "scan" ELSE "iterate"]
    /\ UNCHANGED <<entries, kv, faults, mutex, tcall, tret, seqVars, loop>>

\* for_each_acl calls f on every occupied entry and drops its guard.
Iterate(t) ==
    /\ pc[t] = "iterate"
    /\ Return(t, "Ok")
    /\ rwlock' = DropReads(rwlock, t)
    /\ UNCHANGED <<entries, kv, faults, mutex, tcall, seqVars, loop>>

\* The loop of allow (lines 565-569): on a grant the guard is dropped and
\* allow returns true; else the denial is logged, with the guard still held.
Scan(t) ==
    /\ pc[t] = "scan"
    /\ IF allow_scan(entries, CHOOSE r \in tcall[t].req : TRUE, 1)
       THEN /\ Return(t, "true")
            /\ rwlock' = DropReads(rwlock, t)
       ELSE /\ pc' = [pc EXCEPT ![t] = "display"]
            /\ UNCHANGED <<rwlock, tret>>
    /\ UNCHANGED <<entries, kv, faults, mutex, tcall, seqVars, loop>>

\* error!("{}", self) formats the AclMgr: Display::fmt takes a guard of its
\* own with inner.read() (line 581).
DisplayLock(t) ==
    /\ pc[t] = "display"
    /\ rwlock.writer = None
    /\ rwlock.waiting = {}
    /\ rwlock' = [rwlock EXCEPT !.readers[t] = @ + 1]
    /\ pc' = [pc EXCEPT ![t] = "fmt"]
    /\ UNCHANGED <<entries, kv, faults, mutex, tcall, tret, seqVars, loop>>

\* Display::fmt writes the table and drops its guard; allow drops its own
\* and returns false.
Fmt(t) ==
    /\ pc[t] = "fmt"
    /\ Return(t, "false")
    /\ rwlock' = DropReads(rwlock, t)
    /\ UNCHANGED <<entries, kv, faults, mutex, tcall, seqVars, loop>>

\* new_with: psm_handle.lock() returns the guard (line 444).
LoadLock(t) ==
    /\ pc[t] = "load_lock"
    /\ mutex = None
    /\ mutex' = Some(t)
    /\ pc' = [pc EXCEPT ![t] = "load"]
    /\ UNCHANGED <<entries, kv, faults, rwlock, tcall, tret, seqVars, loop>>

\* new_with: AclMgrInner::load under the guard, which is dropped at the end
\* of the block (line 446); the AclMgr it builds is another one than the
\* AclMgr the threads share.
Load(t) ==
    /\ pc[t] = "load"
    /\ mutex' = None
    /\ Return(t, "Ok")
    /\ UNCHANGED <<entries, kv, faults, rwlock, tcall, seqVars, loop>>

\* A step of thread t inside a call
Run(t) ==
    \/ WriteLock(t) \/ Body(t) \/ PsmLock(t) \/ Store(t)
    \/ ReadLock(t) \/ Iterate(t) \/ Scan(t) \/ DisplayLock(t) \/ Fmt(t)
    \/ LoadLock(t) \/ Load(t)

NextThreads == \E t \in Threads : Call(t) \/ Run(t)

SpecThreads == InitThreads /\ [][NextThreads]_vars

\* A thread inside a call keeps running, and a lock that is free again and
\* again is handed to a thread that waits for it.
SpecThreadsFair == SpecThreads /\ \A t \in Threads : SF_vars(Run(t))

-----------------------------------------------------------------------------
(* The threads with the loops over the slots taken slot by slot: SpecSlots *)

\* Thread t leaves its loop over the slots
LoopDone(t) == loop' = [loop EXCEPT ![t] = LoopIdle]

\* After the change to the table a mutator goes on to psm.lock(), or returns
\* Ok when persistence is off.
Changed(t) ==
    IF psm
    THEN pc' = [pc EXCEPT ![t] = "psm_lock"] /\ UNCHANGED <<rwlock, tret>>
    ELSE Return(t, "Ok") /\ rwlock' = DropWrite(rwlock)

\* add counts the entries of the fabric (lines 477-485).
AddCheck(t) ==
    /\ pc[t] = "body" /\ tcall[t].op = "add" /\ loop[t].i = 0
    /\ LET entry == CHOOSE e \in tcall[t].entry : TRUE
       IN  IF fabric_count(entries, entry.fab_idx) >= ENTRIES_PER_FABRIC
           THEN /\ Return(t, "NoSpace")
                /\ rwlock' = DropWrite(rwlock)
                /\ UNCHANGED loop
           ELSE /\ loop' = [loop EXCEPT ![t].i = 1]
                /\ UNCHANGED <<pc, tret, rwlock>>
    /\ UNCHANGED <<entries, kv, faults, mutex, tcall, seqVars>>

\* add puts the entry into the first free slot (lines 486-491).
AddInsert(t) ==
    /\ pc[t] = "body" /\ tcall[t].op = "add" /\ loop[t].i = 1
    /\ LoopDone(t)
    /\ LET index == position_none(entries)
       IN  IF index = None
           THEN /\ Return(t, "NoSpace")
                /\ rwlock' = DropWrite(rwlock)
                /\ UNCHANGED entries
           ELSE /\ entries' = [entries EXCEPT ![CHOOSE k \in index : TRUE] = tcall[t].entry]
                /\ Changed(t)
    /\ UNCHANGED <<kv, faults, mutex, tcall, seqVars>>

\* edit and delete find the slot and write it (lines 504-505, 517-518).
EditDelete(t) ==
    /\ pc[t] = "body" /\ tcall[t].op \in {"edit", "delete"}
    /\ LET r == inner_mutate(entries, tcall[t])
       IN  /\ entries' = r.entries
           /\ IF r.ret = "Ok" THEN Changed(t)
              ELSE Return(t, r.ret) /\ rwlock' = DropWrite(rwlock)
    /\ UNCHANGED <<kv, faults, mutex, tcall, loop, seqVars>>

\* One turn of the loop of delete_for_fabric (lines 531-538) or of erase_all
\* (lines 464-466): the next slot is cleared, in delete_for_fabric when its
\* entry is of the fabric.
ClearSlot(t) ==
    /\ pc[t] = "body" /\ tcall[t].op \in {"delete_for_fabric", "erase_all"}
    /\ LET i == loop[t].i + 1
       IN  /\ entries' =
                IF \/ tcall[t].op = "erase_all"
                   \/ \E e \in entries[i] : e.fab_idx = Some(tcall[t].fab_idx)
                THEN [entries EXCEPT ![i] = None]
                ELSE entries
           /\ IF i < MAX_ACL_ENTRIES
              THEN /\ loop' = [loop EXCEPT ![t].i = i]
                   /\ UNCHANGED <<pc, tret, rwlock>>
              ELSE LoopDone(t) /\ Changed(t)
    /\ UNCHANGED <<kv, faults, mutex, tcall, seqVars>>

\* One turn of the loop of allow (lines 565-569): the next slot is read; a
\* grant returns true, and after the last slot the denial is logged.
ScanSlot(t) ==
    /\ pc[t] = "scan"
    /\ LET i == loop[t].i + 1
           req == CHOOSE r \in tcall[t].req : TRUE
       IN  IF \E e \in entries[i] : AclEntry_allow(e, req)
           THEN /\ Return(t, "true")
                /\ rwlock' = DropReads(rwlock, t)
                /\ LoopDone(t)
           ELSE IF i < MAX_ACL_ENTRIES
           THEN /\ loop' = [loop EXCEPT ![t] = [i |-> i, seen |-> Append(@.seen, entries[i])]]
                /\ UNCHANGED <<pc, tret, rwlock>>
           ELSE /\ pc' = [pc EXCEPT ![t] = "display"]
                /\ LoopDone(t)
                /\ UNCHANGED <<tret, rwlock>>
    /\ UNCHANGED <<entries, kv, faults, mutex, tcall, seqVars>>

\* One turn of the loop of for_each_acl (lines 553-555): the next slot is
\* read and f is called on its entry; after the last slot the guard is
\* dropped.
IterSlot(t) ==
    /\ pc[t] = "iterate"
    /\ LET i == loop[t].i + 1
       IN  IF i < MAX_ACL_ENTRIES
           THEN /\ loop' = [loop EXCEPT ![t] = [i |-> i, seen |-> Append(@.seen, entries[i])]]
                /\ UNCHANGED <<pc, tret, rwlock>>
           ELSE /\ Return(t, "Ok")
                /\ rwlock' = DropReads(rwlock, t)
                /\ LoopDone(t)
    /\ UNCHANGED <<entries, kv, faults, mutex, tcall, seqVars>>

RunSlots(t) ==
    \/ WriteLock(t) \/ AddCheck(t) \/ AddInsert(t) \/ EditDelete(t) \/ ClearSlot(t)
    \/ PsmLock(t) \/ Store(t)
    \/ ReadLock(t) \/ IterSlot(t) \/ ScanSlot(t) \/ DisplayLock(t) \/ Fmt(t)
    \/ LoadLock(t) \/ Load(t)

NextSlots == \E t \in Threads : Call(t) \/ RunSlots(t)

SpecSlots == InitThreads /\ [][NextSlots]_vars

-----------------------------------------------------------------------------
(* Properties of the authorization predicates (SpecMatch) *)

\* The occupied slots of an array of options
Occupied(arr) == UNION {arr[i] : i \in 1..Len(arr)}

\* A CAT subject: the high 32 bits are the prefix 0xFFFF_FFFD
IsCat(id) == id[1] = 65535 /\ id[2] = 65533
CatGroup(id) == id[3]
CatVersion(id) == id[4]
\* The identifiers an accessor holds, and its CAT credentials
HeldIds(subjects) == {subjects[i] : i \in 1..Len(subjects)} \ {Zero64}
HeldCats(subjects) == {c \in HeldIds(subjects) : IsCat(c)}

\* Target membership as the specification words it
TargetMember(e, path) ==
    \/ Occupied(e.targets) = {}
    \/ \E t \in Occupied(e.targets) :
          /\ (t.endpoint = None \/ t.endpoint = path.endpoint)
          /\ (t.cluster = None \/ t.cluster = path.cluster)

SameGates(e, a) == e.auth_mode = a.auth_mode /\ e.fab_idx = Some(a.fab_idx)

\* C3. Auth-mode gate: an entry whose auth_mode differs from the accessor's
\* auth mode never authorizes a request, whatever its subjects, targets,
\* privilege and fabric index.
C3_AuthModeGate ==
    (m_out.fn = "allow" /\ m_in.entry.auth_mode # m_in.req.accessor.auth_mode)
        => m_out.ret = FALSE

\* An entry that matches the request in everything but the auth mode was denied.
C3_Witness ==
    /\ m_out.fn = "allow"
    /\ m_out.ret = FALSE
    /\ m_in.entry.auth_mode = "Pase"
    /\ m_in.req.accessor.auth_mode = "Case"
    /\ m_in.entry.fab_idx = Some(m_in.req.accessor.fab_idx)
    /\ Occupied(m_in.entry.subjects) = {}
    /\ Occupied(m_in.entry.targets) = {}
    /\ m_in.req.object.target_perms = Some(Access_RWVA)
    /\ m_in.req.object.operation = Access_READ

\* C5. Privilege gate: an entry for which the policy does not permit the
\* requested operation at the entry's privilege never authorizes the request,
\* and the policy is consulted only when target membership is true.
C5_PrivilegeGate ==
    /\ (m_out.fn \in {"allow", "match_access_desc"}) =>
          \A a \in m_in.req.object.target_perms :
              ~is_ok(a, m_in.req.object.operation, m_in.entry.privilege)
                  => m_out.ret = FALSE
    /\ (m_out.fn = "match_access_desc" /\ m_out.is_ok_calls # <<>>) =>
          TargetMember(m_in.entry, m_in.req.object.path)

\* A VIEW entry that matches accessor and target exactly was asked for a
\* WRITE on an RWVA target, and denied.
C5_Witness ==
    /\ m_out.fn = "allow"
    /\ m_out.ret = FALSE
    /\ SameGates(m_in.entry, m_in.req.accessor)
    /\ Occupied(m_in.entry.subjects) = {}
    /\ Target_new(Some(1), Some(1234), None) \in Occupied(m_in.entry.targets)
    /\ m_in.req.object.path = GenericPath_new(Some(1), Some(1234), None)
    /\ m_in.entry.privilege = Privilege_VIEW
    /\ m_in.req.object.operation = Access_WRITE
    /\ m_in.req.object.target_perms = Some(Access_RWVA)

\* C6. CAT version monotonicity: for an accessor holding a CAT credential
\* (G, V_a) and an entry subject that is a CAT (G, V_e), matches succeeds iff
\* V_a >= V_e; when the group of the entry's CAT differs from every CAT group
\* the accessor holds, and the subject equals none of the accessor's
\* identifiers, the match fails. (V_a is read as the version of the one
\* credential of group G that the accessor holds.)
C6_CatVersionMonotone ==
    m_out.fn = "matches" =>
        \A s \in m_out.subject :
            LET held == HeldCats(m_in.req.accessor.subjects)
                inGroup == {c \in held : CatGroup(c) = CatGroup(s)}
            IN  IsCat(s) =>
                  /\ \A c \in inGroup :
                        inGroup = {c} =>
                            (m_out.ret <=> CatVersion(c) >= CatVersion(s))
                  /\ (inGroup = {} /\ s \notin HeldIds(m_in.req.accessor.subjects))
                        => m_out.ret = FALSE

\* C20. is_noc_cat(id) is true iff the high-order 32 bits of the id equal the
\* CAT prefix 0xFFFF_FFFD; an id with other high bits (0xFFFF_FFFF, say) is
\* not classified as a CAT and is never matched against a CAT subject by group
\* and version.
C20_IsNocCat ==
    /\ \A id \in HeldIds(m_in.req.accessor.subjects) \cup Occupied(m_in.entry.subjects) :
          is_noc_cat(id) <=> IsCat(id)
    /\ m_out.fn = "matches" =>
          \A s \in m_out.subject :
              (/\ IsCat(s)
               /\ HeldCats(m_in.req.accessor.subjects) = {}
               /\ s \notin HeldIds(m_in.req.accessor.subjects))
                  => m_out.ret = FALSE

\* C7. Subject membership: for an entry whose auth mode and fabric index
\* equal the accessor's, match_accessor is true iff the entry has no occupied
\* subject slot or at least one occupied subject s satisfies
\* accessor.subjects.matches(s).
C7_SubjectMembership ==
    (m_out.fn = "match_accessor" /\ SameGates(m_in.entry, m_in.req.accessor)) =>
        (m_out.ret <=>
            \/ Occupied(m_in.entry.subjects) = {}
            \/ \E s \in Occupied(m_in.entry.subjects) :
                  matches(m_in.req.accessor.subjects, s))

\* The wildcard: an entry without subjects matched an accessor.
C7_Witness ==
    /\ m_out.fn = "match_accessor"
    /\ m_out.ret = TRUE
    /\ SameGates(m_in.entry, m_in.req.accessor)
    /\ Occupied(m_in.entry.subjects) = {}

\* The device types of the targets of e replaced by dt
WithDeviceType(e, dt) ==
    [e EXCEPT !.targets =
        [i \in 1..TARGETS_PER_ENTRY |->
            {[t EXCEPT !.device_type = dt] : t \in e.targets[i]}]]

\* C8. Target membership: true iff the targets array has no occupied slot or
\* some occupied slot has (endpoint absent or equal to the path's) and
\* (cluster absent or equal to the path's); device_type never influences the
\* result. Membership shows in the result of match_access_desc: it returns
\* true exactly when membership holds and the policy permits.
C8_TargetMembership ==
    m_out.fn = "match_access_desc" =>
        /\ m_out.ret <=>
              /\ TargetMember(m_in.entry, m_in.req.object.path)
              /\ \E a \in m_in.req.object.target_perms :
                    is_ok(a, m_in.req.object.operation, m_in.entry.privilege)
        /\ \A dt \in {None, Some(22), Some(23)} :
              match_access_desc(WithDeviceType(m_in.entry, dt), m_in.req.object)
                  = m_out.ret

\* The second of two targets, one that names a device type, matched the path
\* after the first had not.
C8_Witness ==
    /\ m_out.fn = "match_access_desc"
    /\ m_out.ret = TRUE
    /\ m_in.req.object.path = GenericPath_new(Some(1), Some(1234), None)
    /\ m_in.entry.targets[1] = Some(Target_new(Some(2), None, Some(22)))
    /\ m_in.entry.targets[2] = Some(Target_new(Some(1), Some(1234), Some(22)))

-----------------------------------------------------------------------------
(* Properties of the engine (Spec) *)

StoreEmpty == \A i \in 1..MAX_ACL_ENTRIES : entries[i] = None

\* The request of the allow call made last
LastReq == CHOOSE r \in call.req : TRUE

\* The slots of table es whose entry carries fabric index fab (an Option<u8>)
SlotsOf(es, fab) == {i \in DOMAIN es : es[i] # None /\ \A e \in es[i] : e.fab_idx = fab}
FreeSlots(es) == {i \in DOMAIN es : es[i] = None}

\* C1, as claimed. Default-deny: when every slot of the store is empty,
\* AclMgr::allow returns false for any request, for every accessor (any
\* fabric index, any subjects, any auth mode), path, operation and target
\* access policy.
C1_DefaultDeny ==
    (call.op = "allow" /\ StoreEmpty) => ret = "false"

\* C1, amended. When every slot of the store is empty, AclMgr::allow returns
\* false for every request of an accessor whose auth mode is not PASE.
C1_DefaultDenyNonPase ==
    (call.op = "allow" /\ StoreEmpty /\ LastReq.accessor.auth_mode # "Pase")
        => ret = "false"

\* A CASE accessor was denied on the empty store.
C1_Witness ==
    /\ call.op = "allow"
    /\ StoreEmpty
    /\ LastReq.accessor.auth_mode = "Case"
    /\ LastReq.object.target_perms = Some(Access_RWVA)
    /\ ret = "false"

\* C2. PASE implicit grant: for an accessor whose auth mode is PASE, allow
\* returns true whatever the store contains, whatever the accessor's fabric
\* index and subjects, with or without a target access policy.
C2_PaseImplicitGrant ==
    (call.op = "allow" /\ LastReq.accessor.auth_mode = "Pase") => ret = "true"

\* A PASE accessor was granted a request without target access policy on the
\* empty store.
C2_Witness ==
    /\ call.op = "allow"
    /\ StoreEmpty
    /\ LastReq.accessor.auth_mode = "Pase"
    /\ LastReq.object.target_perms = None
    /\ ret = "true"

\* C4. Fabric gate: an entry whose fabric index differs from the accessor's
\* never authorizes a request, and for a non-PASE accessor of fabric f allow
\* is false in any store that holds no entry of fabric f.
C4_FabricGate ==
    call.op = "allow" =>
        /\ \A i \in 1..MAX_ACL_ENTRIES : \A e \in entries[i] :
              e.fab_idx # Some(LastReq.accessor.fab_idx)
                  => ~AclEntry_allow(e, LastReq)
        /\ (/\ LastReq.accessor.auth_mode # "Pase"
            /\ SlotsOf(entries, Some(LastReq.accessor.fab_idx)) = {})
              => ret = "false"

\* A CASE accessor of fabric 2 was denied on a store whose entries, all of
\* fabric 1, match its auth mode, subjects, target and privilege.
C4_Witness ==
    /\ call.op = "allow"
    /\ ret = "false"
    /\ LastReq.accessor.auth_mode = "Case"
    /\ LastReq.accessor.fab_idx = 2
    /\ LastReq.object.target_perms = Some(Access_RWVA)
    /\ LastReq.object.operation = Access_READ
    /\ SlotsOf(entries, Some(1)) # {}
    /\ SlotsOf(entries, Some(2)) = {}
    /\ \A i \in 1..MAX_ACL_ENTRIES : \A e \in entries[i] :
          /\ e.auth_mode = "Case"
          /\ Occupied(e.subjects) = {}
          /\ Occupied(e.targets) = {}
          /\ is_ok(Access_RWVA, Access_READ, e.privilege)

\* C9. add(entry) returns NoSpace, leaving every slot unchanged, exactly when
\* the store already holds ENTRIES_PER_FABRIC entries with the entry's fabric
\* index or no slot is free; otherwise it writes the entry into the lowest
\* free slot, leaves every other slot unchanged, and persists the table.
C9_AddStep ==
    call'.op = "add" =>
        \A e \in call'.entry :
            LET full == \/ Cardinality(SlotsOf(entries, e.fab_idx)) >= ENTRIES_PER_FABRIC
                        \/ FreeSlots(entries) = {}
            IN  /\ ret' = "NoSpace" <=> full
                /\ full => (entries' = entries /\ kv' = kv)
                /\ ~full =>
                      /\ \E i \in FreeSlots(entries) :
                            /\ \A j \in FreeSlots(entries) : i <= j
                            /\ entries'[i] = Some(e)
                            /\ \A j \in 1..MAX_ACL_ENTRIES \ {i} :
                                  entries'[j] = entries[j]
                      /\ ret' \in {"Ok", "PsmError"}
                      /\ (psm /\ ret' = "Ok") => kv' = Some(to_tlv(entries'))

C9_AddNoSpace == [][C9_AddStep]_vars

\* add was refused for the per-fabric limit while slots were still free.
C9_Witness ==
    /\ call.op = "add"
    /\ ret = "NoSpace"
    /\ FreeSlots(entries) # {}

\* C10. Per-fabric capacity: from the empty store, after any sequence of add,
\* edit, delete, delete_for_fabric and erase_all calls, the number of entries
\* owned by any single fabric index never exceeds ENTRIES_PER_FABRIC.
C10_PerFabricCapacity ==
    \A f \in FabIdxs : Cardinality(SlotsOf(entries, Some(f))) <= ENTRIES_PER_FABRIC

\* The slot of the index-th entry (0-based) among the entries of table es with
\* fabric index fab_idx, counted in slot order: a set with at most one element
NthSlotOf(es, index, fab_idx) ==
    {s \in SlotsOf(es, Some(fab_idx)) :
        Cardinality({j \in SlotsOf(es, Some(fab_idx)) : j < s}) = index}

\* C11. Fabric-relative indexing: a successful edit(i, f, new) or delete(i, f)
\* changes exactly one slot, the slot of the i-th entry (0-based) among the
\* entries with fabric index f in scan order; every other slot, entries of
\* other fabrics in between and other entries of f included, is unchanged.
C11_IndexStep ==
    (call'.op \in {"edit", "delete"} /\ ret' = "Ok") =>
        /\ NthSlotOf(entries, call'.index, call'.fab_idx) # {}
        /\ \A s \in NthSlotOf(entries, call'.index, call'.fab_idx) :
              /\ entries'[s] = (IF call'.op = "edit" THEN call'.entry ELSE None)
              /\ \A j \in 1..MAX_ACL_ENTRIES \ {s} : entries'[j] = entries[j]

C11_FabricRelativeIndexing == [][C11_IndexStep]_vars

\* delete(1, 1) removed the second entry of fabric 1 from slot 3, behind an
\* entry of fabric 2 in slot 2.
C11_Witness ==
    /\ call.op = "delete" /\ call.index = 1 /\ call.fab_idx = 1
    /\ ret = "Ok"
    /\ SlotsOf(entries, Some(1)) = {1, 4}
    /\ SlotsOf(entries, Some(2)) = {2}
    /\ entries[3] = None

\* C12. edit(i, f, new) and delete(i, f) return NotFound exactly when the
\* store holds at most i entries with fabric index f; then no slot is changed
\* and nothing is written to durable storage.
C12_NotFoundStep ==
    call'.op \in {"edit", "delete"} =>
        /\ ret' = "NotFound" <=>
              Cardinality(SlotsOf(entries, Some(call'.fab_idx))) <= call'.index
        /\ ret' = "NotFound" => (entries' = entries /\ kv' = kv)

C12_NotFound == [][C12_NotFoundStep]_vars

\* edit at index 1 was refused for a fabric that holds exactly one entry.
C12_Witness ==
    /\ call.op = "edit" /\ call.index = 1
    /\ ret = "NotFound"
    /\ Cardinality(SlotsOf(entries, Some(call.fab_idx))) = 1
    /\ kv = Some(to_tlv(entries))

\* C13. delete_for_fabric(f) clears every slot whose entry has fabric index f
\* and no other slot: afterwards no entry of f is left, every entry of another
\* fabric is in the same slot with the same fields, and a request such an
\* entry authorized before the call is authorized after it.
C13_DeleteForFabricStep ==
    call'.op = "delete_for_fabric" =>
        /\ SlotsOf(entries', Some(call'.fab_idx)) = {}
        /\ \A i \in 1..MAX_ACL_ENTRIES \ SlotsOf(entries, Some(call'.fab_idx)) :
              /\ entries'[i] = entries[i]
              /\ \A e \in entries[i] : \A r \in ReqPool :
                    AclEntry_allow(e, r) => AclMgr_allow(entries', r)

C13_DeleteForFabric == [][C13_DeleteForFabricStep]_vars

\* delete_for_fabric(1) emptied slot 1 and left the entry of fabric 2 in slot 2.
C13_Witness ==
    /\ call.op = "delete_for_fabric" /\ call.fab_idx = 1
    /\ ret = "Ok"
    /\ entries[1] = None
    /\ SlotsOf(entries, Some(2)) = {2}
    /\ SlotsOf(entries, Some(1)) = {}

-----------------------------------------------------------------------------
(* Properties of the store with failing durable writes (SpecFault) *)

\* C14. erase_all leaves every slot of the in-memory store empty and reports
\* no failure, whether the durable write succeeds or fails; add, edit, delete
\* and delete_for_fabric return the persistence error as their result when
\* the durable write fails. (A step with faults' < faults is a failed write.)
C14_PersistenceErrorStep ==
    /\ call'.op = "erase_all" =>
          /\ \A i \in 1..MAX_ACL_ENTRIES : entries'[i] = None
          /\ ret' = "Ok"
    /\ (/\ call'.op \in {"add", "edit", "delete", "delete_for_fabric"}
        /\ faults' < faults)
          => ret' = "PsmError"

C14_PersistenceErrors == [][C14_PersistenceErrorStep]_vars

\* erase_all returned with the store empty while the durable table, whose
\* write failed, still holds entries.
C14_Witness ==
    /\ call.op = "erase_all"
    /\ ret = "Ok"
    /\ StoreEmpty
    /\ faults < MaxFaults
    /\ kv # None /\ kv # Some(<<>>)

-----------------------------------------------------------------------------
(* Properties of the threads and the locks (SpecThreads, SpecThreadsFair) *)

\* Thread t is inside a mutator
InMutator(t) == pc[t] \in {"write", "body", "psm_lock", "store"}
\* Thread t is blocked in inner.write() or inner.read()
WaitsStoreLock(t) == pc[t] \in {"write", "read", "display"}
HoldsStoreLock(t) == rwlock.writer = Some(t) \/ rwlock.readers[t] > 0

\* C15. Write-through persistence: with persistence enabled and durable
\* writes succeeding, whenever no mutator is in progress the table held in
\* durable storage under the ACL key equals the in-memory store as the most
\* recent mutating call left it, in every interleaving of mutators of
\* concurrent threads. (A storage that holds no table yet stands for the
\* empty table, which is what a load makes of it.)
C15_WriteThrough ==
    (\A t \in Threads : ~InMutator(t)) =>
        \/ kv = Some(to_tlv(entries))
        \/ kv = None /\ StoreEmpty

\* Two threads have each finished a mutator, and the durable table holds the
\* entries they left.
C15_Witness ==
    /\ \A t \in Threads : pc[t] = "idle" /\ tret[t] = "Ok"
    /\ tcall[1].op = "add" /\ tcall[2].op = "delete"
    /\ SlotsOf(entries, Some(1)) = {2, 3}
    /\ kv = Some(to_tlv(entries))

\* C17. Lock ordering: in every operation that takes both locks the store
\* lock is acquired before the storage mutex; no thread waits for the store
\* lock while it holds the storage mutex, so no cycle between the two locks
\* is reachable.
C17_LockOrdering ==
    /\ \A t \in Threads :
          /\ (mutex = Some(t) /\ tcall[t].op \in Mutators) => rwlock.writer = Some(t)
          /\ mutex = Some(t) => ~WaitsStoreLock(t)
    /\ ~\E t, u \in Threads :
          /\ HoldsStoreLock(t) /\ pc[t] = "psm_lock" /\ mutex = Some(u)
          /\ WaitsStoreLock(u)

\* One thread holds both locks in a mutator, the other is blocked on the
\* store lock.
C17_Witness ==
    /\ pc[1] = "store"
    /\ rwlock.writer = Some(1) /\ mutex = Some(1)
    /\ pc[2] = "write"

\* C18. Every call completes: with a reader/writer lock in which a waiting
\* writer blocks new read acquisitions, every call to allow (grant path and
\* deny path), for_each_acl and each mutator eventually returns, in every
\* interleaving of threads calling into the same AclMgr.
C18_EveryCallCompletes ==
    \A t \in Threads : (pc[t] # "idle") ~> (pc[t] = "idle")

-----------------------------------------------------------------------------
(* Properties of the store over restarts (SpecRestart) *)

\* C16. Round-trip: for every store reachable through the public API (entries
\* built with AclEntry::new with any AuthMode value, add_subject, add_target,
\* then add/edit/delete), storing the table and loading it again yields the
\* same occupied entries with the same fields in the same order; after
\* erase_all a reload yields an empty store.
C16_RoundTripStep ==
    (call'.op = "new_with" /\ kv = Some(to_tlv(entries))) =>
        /\ Occ(entries') = Occ(entries)
        /\ call.op = "erase_all" => \A i \in 1..MAX_ACL_ENTRIES : entries'[i] = None

C16_RoundTrip == [][C16_RoundTripStep]_vars

\* C19. Uncommissioned accessors: an accessor whose fabric index is 0 is
\* matched by no entry in the store, so a non-PASE accessor with fabric index
\* 0 is always denied.
C19_UncommissionedDenied ==
    (call.op = "allow" /\ LastReq.accessor.fab_idx = 0
                       /\ LastReq.accessor.auth_mode # "Pase") =>
        /\ \A i \in 1..MAX_ACL_ENTRIES : \A e \in entries[i] :
              ~match_accessor(e, LastReq.accessor)
        /\ ret = "false"

-----------------------------------------------------------------------------
(* Properties of the engine, continued (Spec, SpecFault) *)

\* The table with its slots in reverse order
Reversed(es) == [i \in 1..MAX_ACL_ENTRIES |-> es[MAX_ACL_ENTRIES + 1 - i]]

\* C21. Engine decision: for an accessor whose auth mode is not PASE, allow
\* returns true iff at least one occupied slot holds an entry e with
\* match_accessor(e, accessor) and match_access_desc(e, request) both true;
\* the result does not depend on the slot positions of the entries, and a
\* request with no declared target access policy is authorized by no entry.
C21_EngineDecision ==
    (call.op = "allow" /\ LastReq.accessor.auth_mode # "Pase") =>
        /\ ret = "true" <=>
              \E i \in 1..MAX_ACL_ENTRIES : \E e \in entries[i] :
                  /\ match_accessor(e, LastReq.accessor)
                  /\ match_access_desc(e, LastReq.object)
        /\ ret = Bool(AclMgr_allow(Reversed(entries), LastReq))
        /\ LastReq.object.target_perms = None =>
              /\ ret = "false"
              /\ \A i \in 1..MAX_ACL_ENTRIES : \A e \in entries[i] :
                    ~AclEntry_allow(e, LastReq)

\* A CASE accessor of fabric 2 was granted by the entry in slot 2, after the
\* entry of fabric 1 in slot 1 had not matched.
C21_Witness ==
    /\ call.op = "allow"
    /\ ret = "true"
    /\ LastReq.accessor.auth_mode = "Case"
    /\ LastReq.accessor.fab_idx = 2
    /\ SlotsOf(entries, Some(1)) = {1}
    /\ SlotsOf(entries, Some(2)) = {2}

\* C22. Store order is insertion order: after any sequence of add and delete
\* calls, a scan of the occupied slots in slot order visits the surviving
\* entries in the order in which they were added. delete moves no entry, so
\* the order is kept exactly when every add puts its entry behind every
\* entry that is in the store: the youngest entry is the last one visited.
C22_InsertionOrderStep ==
    (call'.op = "add" /\ ret' = "Ok") =>
        \A i \in 1..MAX_ACL_ENTRIES :
            entries'[i] # entries[i] =>
                \A j \in 1..MAX_ACL_ENTRIES : entries[j] # None => j < i

C22_InsertionOrder == [][C22_InsertionOrderStep]_vars

\* The number of entries of table es that each fabric index owns
FabricCounts(es) == [f \in FabIdxs |-> Cardinality(SlotsOf(es, Some(f)))]

\* C24. Edit read-after-write: after edit(i, f, new) returns success, the
\* entry at fabric-relative index i of fabric f is new, the number of entries
\* owned by fabric f is the same as before the call, and the number owned by
\* every other fabric is unchanged, whatever fabric index new carries.
C24_EditStep ==
    (call'.op = "edit" /\ ret' = "Ok") =>
        /\ NthSlotOf(entries', call'.index, call'.fab_idx) # {}
        /\ \A s \in NthSlotOf(entries', call'.index, call'.fab_idx) :
              entries'[s] = call'.entry
        /\ FabricCounts(entries') = FabricCounts(entries)

C24_EditReadAfterWrite == [][C24_EditStep]_vars

\* C25. State unchanged on a failed mutation: when add, edit, delete or
\* delete_for_fabric returns an error because the durable write failed, the
\* in-memory store holds the same entries as before the call, allow
\* authorizes the same requests as before, and the in-memory store equals
\* the last table that was persisted.
C25_FailedMutationStep ==
    (/\ call'.op \in {"add", "edit", "delete", "delete_for_fabric"}
     /\ ret' = "PsmError") =>
        /\ entries' = entries
        /\ \A r \in FaultReqPool :
              AclMgr_allow(entries', r) = AclMgr_allow(entries, r)
        /\ \/ kv' = Some(to_tlv(entries'))
           \/ kv' = None /\ \A i \in 1..MAX_ACL_ENTRIES : entries'[i] = None

C25_FailedMutation == [][C25_FailedMutationStep]_vars

-----------------------------------------------------------------------------
(* Properties of the loops over the slots (SpecSlots) *)

\* Thread t holds a read guard and reads the table
Reads(t) == pc[t] \in {"scan", "iterate"}
\* Thread t is between inner.write() and the drop of its write guard
Writes(t) == pc[t] \in {"body", "psm_lock", "store"}

\* C23. Reader/writer atomicity: an allow or for_each_acl call that runs
\* beside a mutator evaluates either the complete store from before the
\* mutation or the complete store after it: while it reads, no mutator is
\* between its first and its last change, and the slots it has read are
\* still as it read them. No two mutators modify the store at the same time:
\* between the count check of add and its insertion the count stays below
\* the limit.
C23_ReaderWriterAtomicity ==
    /\ \A t \in Threads : Reads(t) =>
          /\ \A u \in Threads : ~Writes(u)
          /\ \A k \in 1..loop[t].i : loop[t].seen[k] = entries[k]
    /\ \A t, u \in Threads : (Writes(t) /\ Writes(u)) => t = u
    /\ \A t \in Threads :
          (pc[t] = "body" /\ tcall[t].op = "add" /\ loop[t].i = 1) =>
              \A e \in tcall[t].entry :
                  fabric_count(entries, e.fab_idx) < ENTRIES_PER_FABRIC

\* Thread 1 is inside the loop of allow, behind an empty slot and in front of
\* an entry, while thread 2 is blocked in the inner.write() of erase_all.
C23_Witness ==
    /\ pc[1] = "scan" /\ loop[1].i = 1
    /\ entries[1] = None /\ entries[2] # None
    /\ pc[2] = "write" /\ tcall[2].op = "erase_all"

====
